---- MODULE Spec2Model ----
(***************************************************************************)
(* Model of the Codexa front end: the App component (view state            *)
(* controller) of src/unnamed/part_000, lines 91-223, and the API client   *)
(* of src/frontend/src/api.js.  The state is the component's useState      *)
(* cells, the effect's `cancelled` flag and the HTTP calls in flight.      *)
(* Every JavaScript task (an event handler up to its first await, the      *)
(* continuation after an await, the effect cleanup) is one atomic action:  *)
(* the browser runs them one at a time.  A state setter is modelled as a   *)
(* write of the state cell at the moment the code calls it.                *)
(***************************************************************************)
EXTENDS Integers, Sequences, FiniteSets, TLC

(***************************************************************************)
(* Bounds of the model.                                                    *)
(***************************************************************************)
\* Greatest number of API calls issued in one session (the languages fetch
\* of the mount effect included).
MaxCalls == 3

\* Greatest absolute value of the status id of an execution outcome.
MaxStatusId == 5

(***************************************************************************)
(* JavaScript values, tagged by type, with the operators the handlers use. *)
(***************************************************************************)
Undefined == [t |-> "undefined"]
Null == [t |-> "null"]
Str(s) == [t |-> "string", s |-> s]
Num(n) == [t |-> "number", n |-> n]
Obj(f) == [t |-> "object", f |-> f]
Arr(a) == [t |-> "array", a |-> a]

Nullish(v) == v.t \in {"undefined", "null"}

\* ToBoolean: undefined, null, "" and 0 are falsy, objects and arrays truthy.
Truthy(v) ==
  CASE v.t = "undefined" -> FALSE
    [] v.t = "null" -> FALSE
    [] v.t = "string" -> v.s # ""
    [] v.t = "number" -> v.n # 0
    [] OTHER -> TRUE

\* a || b
Or(a, b) == IF Truthy(a) THEN a ELSE b

\* v.k for a v that is neither null nor undefined (a missing property and a
\* property of a primitive read as undefined).
Get(v, k) == IF v.t = "object" /\ k \in DOMAIN v.f THEN v.f[k] ELSE Undefined

\* v?.k
OptGet(v, k) == IF Nullish(v) THEN Undefined ELSE Get(v, k)

(***************************************************************************)
(* Text inputs are sequences of characters; String.prototype.trim removes  *)
(* the white space at both ends.                                           *)
(***************************************************************************)
WhiteSpace == {" ", "\n"}

RECURSIVE trimStart(_)
trimStart(s) ==
  IF s # <<>> /\ Head(s) \in WhiteSpace THEN trimStart(Tail(s)) ELSE s

RECURSIVE trimEnd(_)
trimEnd(s) ==
  IF s # <<>> /\ s[Len(s)] \in WhiteSpace
    THEN trimEnd(SubSeq(s, 1, Len(s) - 1))
    ELSE s

trim(s) == trimEnd(trimStart(s))

\* !x.trim(): the guard of the four handlers and the `disabled` prop of
\* their buttons.
\* (A faulty variant, which C2 must tell from the code: `!x`, without the trim.)
isBlankNoTrim(s) == s = <<>>
isBlank(s) == trim(s) = <<>>

\* What the user can type into the topic and concept inputs (one line) and
\* into the code editor.
LineValues == {<<>>, <<" ", "a", " ">>}
CodeValues == {<<>>, <<" ", "\n">>, <<" ", "a", " ">>}

(***************************************************************************)
(* What the backend can answer.  The backend is opaque: every response     *)
(* body and every rejection below can follow any request.                  *)
(***************************************************************************)
CurriculumBodies ==
  { Obj([curriculum |-> Obj([levels |-> Str("L1")])]),
    Obj([levels |-> Str("L2")]),
    Null }

LessonBodies ==
  { Obj([title |-> Str("T"), explanation |-> Str("E")]) }

FeedbackBodies ==
  { Obj([feedback |-> Str("looks good")]),
    Str("raw feedback"),
    Null }

RunBodies ==
  { Obj([status |-> Obj([id |-> Num(3), description |-> Str("Accepted")]),
         stdout |-> Str("hi\n")]),
    Obj([error |-> Str("unsupported language")]) }

\* The keys of the descriptors of a languages response, in order.  A key is
\* a string; nothing keeps the backend from sending an empty one.
LangLists ==
  { <<>>, <<"python", "js">>, <<"js", "python">>, <<"js">>, <<"">> }

LanguageDescriptor(k) == Obj([key |-> Str(k)])

LanguagesBodies ==
  { Null, Obj([detail |-> Str("no languages")]) } \cup
  { Obj([languages |-> Arr([i \in 1..Len(l) |-> LanguageDescriptor(l[i])])]) :
      l \in LangLists }

\* The errors an axios call rejects with (and `undefined`, for a rejection
\* that carries no error object at all).
Rejections ==
  { Undefined,
    Obj([message |-> Str("")]),
    Obj([message |-> Str("Network Error")]),
    Obj([message |-> Str("Network Error"),
         response |-> Obj([data |-> Obj([error |-> Str("boom")])])]),
    Obj([message |-> Str("Network Error"),
         response |-> Obj([data |-> Obj([error |-> Str("")])])]) }

(***************************************************************************)
(* State.                                                                  *)
(***************************************************************************)
VARIABLES
  topic, curriculum, topicLoading,
  concept, lesson, lessonLoading,
  code, feedback, feedbackLoading,
  languages, languagesLoading, languageError, selectedLanguage,
  executionLoading, executionResult,
  cancelled,   \* the mount effect's flag, set by its cleanup
  inflight,    \* per operation, the API calls awaiting their response
  apiCalls,    \* the API calls issued so far
  lostClick    \* the operation whose button the last event clicked, when
               \* that click started no API call ("none" otherwise)

inputVars == <<topic, concept, code>>
curriculumVars == <<curriculum, topicLoading>>
lessonVars == <<lesson, lessonLoading>>
feedbackVars == <<feedback, feedbackLoading>>
languageVars == <<languages, languagesLoading, languageError, selectedLanguage>>
executionVars == <<executionLoading, executionResult>>
netVars == <<inflight, apiCalls>>

\* Everything but the record of the lost click.
appVars ==
  <<inputVars, curriculumVars, lessonVars, feedbackVars, languageVars,
    executionVars, cancelled, netVars>>

vars == <<appVars, lostClick>>

Ops == {"curriculum", "lesson", "feedback", "languages", "run"}

FailedToFetch == Obj([error |-> Str("failed to fetch")])

LanguageErrorMessage ==
  Str("Unable to load Judge0 languages. Check your backend connection.")

ExecutionFallback == Str("Execution failed. Please try again.")

DefaultLanguage == Str("python")

\* The component after its first commit: the useState initial values, and
\* the mount effect has run fetchLanguages up to its await.
Init ==
  /\ topic = <<>> /\ curriculum = Null /\ topicLoading = FALSE
  /\ concept = <<>> /\ lesson = Null /\ lessonLoading = FALSE
  /\ code = <<>> /\ feedback = Null /\ feedbackLoading = FALSE
  /\ languages = <<>> /\ languagesLoading = TRUE /\ languageError = Null
  /\ selectedLanguage = DefaultLanguage
  /\ executionLoading = FALSE /\ executionResult = Null
  /\ cancelled = FALSE
  /\ inflight = [o \in Ops |-> IF o = "languages" THEN 1 ELSE 0]
  /\ apiCalls = 1
  /\ lostClick = "none"

(***************************************************************************)
(* User events.  After the teardown (cancelled) the component's elements   *)
(* are gone and no user event reaches it.                                  *)
(***************************************************************************)
\* Input onChange={setTopic}
setTopic(v) ==
  /\ ~cancelled
  /\ v # topic
  /\ topic' = v
  /\ lostClick' = "none"
  /\ UNCHANGED <<concept, code, curriculumVars, lessonVars, feedbackVars,
                 languageVars, executionVars, cancelled, netVars>>

\* Input onChange={setConcept}
setConcept(v) ==
  /\ ~cancelled
  /\ v # concept
  /\ concept' = v
  /\ lostClick' = "none"
  /\ UNCHANGED <<topic, code, curriculumVars, lessonVars, feedbackVars,
                 languageVars, executionVars, cancelled, netVars>>

\* Editor onChange={(value) => setCode(value ?? "")}
setCode(v) ==
  /\ ~cancelled
  /\ v # code
  /\ code' = v
  /\ lostClick' = "none"
  /\ UNCHANGED <<topic, concept, curriculumVars, lessonVars, feedbackVars,
                 languageVars, executionVars, cancelled, netVars>>

\* The options of the language <select>: one per descriptor, its value the
\* descriptor's key.
LanguageOptions == { Get(languages[i], "key") : i \in 1..Len(languages) }

\* <select disabled={languagesLoading || languages.length === 0}>
selectDisabled == languagesLoading \/ Len(languages) = 0

\* <select onChange={(e) => setSelectedLanguage(e.target.value)}>
SelectLanguage(k) ==
  /\ ~cancelled
  /\ ~selectDisabled
  /\ k \in LanguageOptions
  /\ selectedLanguage' = k
  /\ lostClick' = "none"
  /\ UNCHANGED <<inputVars, curriculumVars, lessonVars, feedbackVars,
                 languages, languagesLoading, languageError,
                 executionVars, cancelled, netVars>>

\* PrimaryButton: isDisabled = disabled || loading.  A disabled <button>
\* dispatches no click, so its onClick does not run.
\* (A faulty variant, which C1 must tell from the code: isDisabled = disabled.)
PrimaryButtonIgnoresLoading(disabled, loading) == disabled
PrimaryButton(disabled, loading) == disabled \/ loading

\* One more API call of operation o is awaiting its response.
Call(o) ==
  /\ inflight' = [inflight EXCEPT ![o] = @ + 1]
  /\ apiCalls' = apiCalls + 1

\* The response (or the rejection) of one call of operation o has arrived.
\* A promise settles once: the call is no longer awaited afterwards.
\* (A faulty variant, which C11 must tell from the code: a call that stays
\* pending and whose continuation can run again.)
SettleStaysPending(o) == UNCHANGED <<inflight, apiCalls>>
Settle(o) ==
  /\ inflight' = [inflight EXCEPT ![o] = @ - 1]
  /\ UNCHANGED apiCalls

\* handleGenerate up to its await
handleGenerate ==
  IF isBlank(topic)
    THEN UNCHANGED appVars
    ELSE /\ topicLoading' = TRUE
         /\ Call("curriculum")
         /\ UNCHANGED <<inputVars, curriculum, lessonVars, feedbackVars,
                        languageVars, executionVars, cancelled>>

\* handleExplain up to its await
\* (A faulty variant, which C15 must tell from the code: a call issued
\* without setLessonLoading(true).)
handleExplainNoLoading ==
  IF isBlank(concept)
    THEN UNCHANGED appVars
    ELSE /\ Call("lesson")
         /\ UNCHANGED <<inputVars, curriculumVars, lessonVars, feedbackVars,
                        languageVars, executionVars, cancelled>>
handleExplain ==
  IF isBlank(concept)
    THEN UNCHANGED appVars
    ELSE /\ lessonLoading' = TRUE
         /\ Call("lesson")
         /\ UNCHANGED <<inputVars, curriculumVars, lesson, feedbackVars,
                        languageVars, executionVars, cancelled>>

\* handleFeedback up to its await
handleFeedback ==
  IF isBlank(code)
    THEN UNCHANGED appVars
    ELSE /\ feedbackLoading' = TRUE
         /\ Call("feedback")
         /\ UNCHANGED <<inputVars, curriculumVars, lessonVars, feedback,
                        languageVars, executionVars, cancelled>>

\* handleRun up to its await
\* (A faulty variant, which C10 must tell from the code: a run that also resets the
\* feedback.)
handleRunClearsFeedback ==
  IF isBlank(code)
    THEN UNCHANGED appVars
    ELSE /\ executionLoading' = TRUE
         /\ executionResult' = Null
         /\ feedback' = Null
         /\ Call("run")
         /\ UNCHANGED <<inputVars, curriculumVars, lessonVars, feedbackLoading,
                        languageVars, cancelled>>
handleRun ==
  IF isBlank(code)
    THEN UNCHANGED appVars
    ELSE /\ executionLoading' = TRUE
         /\ executionResult' = Null
         /\ Call("run")
         /\ UNCHANGED <<inputVars, curriculumVars, lessonVars, feedbackVars,
                        languageVars, cancelled>>

\* A click on the button of operation o, whose props are `disabled` and
\* `loading` and whose onClick is `handler`.  The click of a disabled button
\* is lost; the session issues at most MaxCalls calls.
Click(o, disabled, loading, handler) ==
  /\ ~cancelled
  /\ IF PrimaryButton(disabled, loading)
       THEN /\ lostClick' = o
            /\ UNCHANGED appVars
       ELSE /\ apiCalls < MaxCalls
            /\ handler
            /\ lostClick' = IF apiCalls' = apiCalls THEN o ELSE "none"

ClickGenerate == Click("curriculum", isBlank(topic), topicLoading, handleGenerate)

ClickExplain == Click("lesson", isBlank(concept), lessonLoading, handleExplain)

ClickFeedback == Click("feedback", isBlank(code), feedbackLoading, handleFeedback)

ClickRun == Click("run", isBlank(code), executionLoading, handleRun)

(***************************************************************************)
(* Completions: the continuation of a handler after its await, once the    *)
(* call has resolved with response body `data` (res.data) or rejected with *)
(* `err`.  try, catch and finally run in one task.                         *)
(***************************************************************************)
\* catch (err) { console.error(err); set...({ error: "failed to fetch" }) }:
\* the catch of handleGenerate, handleExplain and handleFeedback stores the
\* same record whatever the error.
\* (A faulty variant, which C8 must tell from the code: a catch that prefers
\* err.message.)
catchStoredMessage(err) ==
  Obj([error |-> Or(OptGet(err, "message"), Str("failed to fetch"))])
catchStored(err) == FailedToFetch

\* try { setCurriculum(res.data.curriculum || res.data) }: reading a
\* property of a null body throws, and the catch stores the error record.
curriculumStored(data) ==
  IF Nullish(data)
    THEN catchStored(Undefined)
    ELSE Or(Get(data, "curriculum"), data)

handleGenerateResolved(data) ==
  /\ inflight["curriculum"] > 0
  /\ curriculum' = curriculumStored(data)
  /\ topicLoading' = FALSE
  /\ Settle("curriculum")
  /\ lostClick' = "none"
  /\ UNCHANGED <<inputVars, lessonVars, feedbackVars, languageVars,
                 executionVars, cancelled>>

\* (A faulty variant, which C12 must tell from the code: a rejection whose
\* finally does not run, so that the loading flag stays set.)
handleGenerateRejectedStuck(err) ==
  /\ inflight["curriculum"] > 0
  /\ curriculum' = catchStored(err)
  /\ Settle("curriculum")
  /\ lostClick' = "none"
  /\ UNCHANGED <<inputVars, topicLoading, lessonVars, feedbackVars,
                 languageVars, executionVars, cancelled>>
handleGenerateRejected(err) ==
  /\ inflight["curriculum"] > 0
  /\ curriculum' = catchStored(err)
  /\ topicLoading' = FALSE
  /\ Settle("curriculum")
  /\ lostClick' = "none"
  /\ UNCHANGED <<inputVars, lessonVars, feedbackVars, languageVars,
                 executionVars, cancelled>>

handleExplainResolved(data) ==
  /\ inflight["lesson"] > 0
  /\ lesson' = data
  /\ lessonLoading' = FALSE
  /\ Settle("lesson")
  /\ lostClick' = "none"
  /\ UNCHANGED <<inputVars, curriculumVars, feedbackVars, languageVars,
                 executionVars, cancelled>>

handleExplainRejected(err) ==
  /\ inflight["lesson"] > 0
  /\ lesson' = catchStored(err)
  /\ lessonLoading' = FALSE
  /\ Settle("lesson")
  /\ lostClick' = "none"
  /\ UNCHANGED <<inputVars, curriculumVars, feedbackVars, languageVars,
                 executionVars, cancelled>>

\* try { setFeedback(res.data.feedback || res.data) }
\* (A faulty variant, which C13 must tell from the code: a feedback that is
\* stored only when none is stored yet.)
feedbackStoredKeepsPrevious(data) ==
  IF feedback # Null THEN feedback
  ELSE IF Nullish(data) THEN catchStored(Undefined)
  ELSE Or(Get(data, "feedback"), data)
feedbackStored(data) ==
  IF Nullish(data)
    THEN catchStored(Undefined)
    ELSE Or(Get(data, "feedback"), data)

handleFeedbackResolved(data) ==
  /\ inflight["feedback"] > 0
  /\ feedback' = feedbackStored(data)
  /\ feedbackLoading' = FALSE
  /\ Settle("feedback")
  /\ lostClick' = "none"
  /\ UNCHANGED <<inputVars, curriculumVars, lessonVars, languageVars,
                 executionVars, cancelled>>

handleFeedbackRejected(err) ==
  /\ inflight["feedback"] > 0
  /\ feedback' = catchStored(err)
  /\ feedbackLoading' = FALSE
  /\ Settle("feedback")
  /\ lostClick' = "none"
  /\ UNCHANGED <<inputVars, curriculumVars, lessonVars, languageVars,
                 executionVars, cancelled>>

\* setExecutionResult(res.data)
\* (A faulty variant, which C9 must tell from the code: res.data.stdout stored.)
executionStoredStdoutOnly(data) == Get(data, "stdout")
executionStored(data) == data

handleRunResolved(data) ==
  /\ inflight["run"] > 0
  /\ executionResult' = executionStored(data)
  /\ executionLoading' = FALSE
  /\ Settle("run")
  /\ lostClick' = "none"
  /\ UNCHANGED <<inputVars, curriculumVars, lessonVars, feedbackVars,
                 languageVars, cancelled>>

\* err?.response?.data?.error || err?.message || "Execution failed. ..."
\* (A faulty variant, which C7 must tell from the code: no fallback string.)
executionFallbackNoDefault(err) ==
  Or(OptGet(OptGet(OptGet(err, "response"), "data"), "error"),
     OptGet(err, "message"))
executionFallback(err) ==
  Or(Or(OptGet(OptGet(OptGet(err, "response"), "data"), "error"),
        OptGet(err, "message")),
     ExecutionFallback)

handleRunRejected(err) ==
  /\ inflight["run"] > 0
  /\ executionResult' = Obj([error |-> executionFallback(err)])
  /\ executionLoading' = FALSE
  /\ Settle("run")
  /\ lostClick' = "none"
  /\ UNCHANGED <<inputVars, curriculumVars, lessonVars, feedbackVars,
                 languageVars, cancelled>>

(***************************************************************************)
(* The mount effect: fetchLanguages after its await, and the cleanup.      *)
(***************************************************************************)
\* const langs = res.data?.languages || [].  The languages of a response
\* are an array of descriptors, or missing.
langsOf(data) ==
  LET l == Or(OptGet(data, "languages"), Arr(<<>>)) IN l.a

\* langs.some((lang) => lang.key === current)
someKey(langs, current) ==
  \E i \in 1..Len(langs) : Get(langs[i], "key") = current

\* langs[0]?.key
firstKey(langs) == IF langs = <<>> THEN Undefined ELSE Get(langs[1], "key")

\* The updater passed to setSelectedLanguage.
\* (Faulty variants, which C3 and C5 must tell from the code: no membership test;
\* no update at all.)
selectLanguageAlwaysFirst(current, langs) ==
  Or(Or(firstKey(langs), current), DefaultLanguage)
selectLanguageKeepCurrent(current, langs) == current
selectLanguage(current, langs) ==
  IF Truthy(current) /\ someKey(langs, current)
    THEN current
    ELSE Or(Or(firstKey(langs), current), DefaultLanguage)

\* if (cancelled) return: the guard of every write after the await.
\* (A faulty variant, which C4 must tell from the code: no guard.)
discardIgnoresCancelled == FALSE
discard == cancelled

fetchLanguagesResolved(data) ==
  /\ inflight["languages"] > 0
  /\ IF discard
       THEN UNCHANGED languageVars
       ELSE /\ languages' = langsOf(data)
            /\ selectedLanguage' = selectLanguage(selectedLanguage, langsOf(data))
            /\ languageError' = Null
            /\ languagesLoading' = FALSE
  /\ Settle("languages")
  /\ lostClick' = "none"
  /\ UNCHANGED <<inputVars, curriculumVars, lessonVars, feedbackVars,
                 executionVars, cancelled>>

fetchLanguagesRejected(err) ==
  /\ inflight["languages"] > 0
  /\ IF discard
       THEN UNCHANGED languageVars
       ELSE /\ languageError' = LanguageErrorMessage
            /\ languagesLoading' = FALSE
            /\ UNCHANGED <<languages, selectedLanguage>>
  /\ Settle("languages")
  /\ lostClick' = "none"
  /\ UNCHANGED <<inputVars, curriculumVars, lessonVars, feedbackVars,
                 executionVars, cancelled>>

\* The effect's cleanup, run when the component is torn down.
Unmount ==
  /\ ~cancelled
  /\ cancelled' = TRUE
  /\ lostClick' = "none"
  /\ UNCHANGED <<inputVars, curriculumVars, lessonVars, feedbackVars,
                 languageVars, executionVars, netVars>>

Next ==
  \/ \E v \in LineValues : setTopic(v)
  \/ \E v \in LineValues : setConcept(v)
  \/ \E v \in CodeValues : setCode(v)
  \/ \E k \in LanguageOptions : SelectLanguage(k)
  \/ ClickGenerate
  \/ ClickExplain
  \/ ClickFeedback
  \/ ClickRun
  \/ \E data \in CurriculumBodies : handleGenerateResolved(data)
  \/ \E err \in Rejections : handleGenerateRejected(err)
  \/ \E data \in LessonBodies : handleExplainResolved(data)
  \/ \E err \in Rejections : handleExplainRejected(err)
  \/ \E data \in FeedbackBodies : handleFeedbackResolved(data)
  \/ \E err \in Rejections : handleFeedbackRejected(err)
  \/ \E data \in RunBodies : handleRunResolved(data)
  \/ \E err \in Rejections : handleRunRejected(err)
  \/ \E data \in LanguagesBodies : fetchLanguagesResolved(data)
  \/ \E err \in Rejections : fetchLanguagesRejected(err)
  \/ Unmount

Spec == Init /\ [][Next]_vars

(***************************************************************************)
(* The same controller over a network that answers: every call resolves or *)
(* rejects in the end, and the continuation of its handler then runs (the  *)
(* promise job of an await is run by the event loop once the promise has   *)
(* settled; nothing in the handlers disables it).                          *)
(***************************************************************************)
generateSettles ==
  \/ \E data \in CurriculumBodies : handleGenerateResolved(data)
  \/ \E err \in Rejections : handleGenerateRejected(err)

explainSettles ==
  \/ \E data \in LessonBodies : handleExplainResolved(data)
  \/ \E err \in Rejections : handleExplainRejected(err)

feedbackSettles ==
  \/ \E data \in FeedbackBodies : handleFeedbackResolved(data)
  \/ \E err \in Rejections : handleFeedbackRejected(err)

runSettles ==
  \/ \E data \in RunBodies : handleRunResolved(data)
  \/ \E err \in Rejections : handleRunRejected(err)

languagesSettle ==
  \/ \E data \in LanguagesBodies : fetchLanguagesResolved(data)
  \/ \E err \in Rejections : fetchLanguagesRejected(err)

\* The session from the moment the user has filled the three inputs (the
\* languages fetch of the mount effect still awaited): clicks, selections,
\* completions and the teardown.
TypedLine == <<" ", "a", " ">>

InitLive ==
  /\ topic = TypedLine /\ curriculum = Null /\ topicLoading = FALSE
  /\ concept = TypedLine /\ lesson = Null /\ lessonLoading = FALSE
  /\ code = TypedLine /\ feedback = Null /\ feedbackLoading = FALSE
  /\ languages = <<>> /\ languagesLoading = TRUE /\ languageError = Null
  /\ selectedLanguage = DefaultLanguage
  /\ executionLoading = FALSE /\ executionResult = Null
  /\ cancelled = FALSE
  /\ inflight = [o \in Ops |-> IF o = "languages" THEN 1 ELSE 0]
  /\ apiCalls = 1
  /\ lostClick = "none"

NextLive ==
  \/ \E k \in LanguageOptions : SelectLanguage(k)
  \/ ClickGenerate
  \/ ClickExplain
  \/ ClickFeedback
  \/ ClickRun
  \/ generateSettles
  \/ explainSettles
  \/ feedbackSettles
  \/ runSettles
  \/ languagesSettle
  \/ Unmount

SpecLive ==
  /\ InitLive
  /\ [][NextLive]_vars
  /\ WF_vars(generateSettles)
  /\ WF_vars(explainSettles)
  /\ WF_vars(feedbackSettles)
  /\ WF_vars(runSettles)
  /\ WF_vars(languagesSettle)

(***************************************************************************)
(* The Code Lab panel (language list, editor, run) of a controller whose   *)
(* selection was preset, as in the examples "current selection ruby" and   *)
(* "current selection js": the updater passed to setSelectedLanguage is a  *)
(* function of the current selection and of the fetched list, and here it  *)
(* meets every selection.                                                  *)
(***************************************************************************)
SelectionKeys == {"python", "js", "ruby", "go"}

InitSelect ==
  /\ topic = <<>> /\ curriculum = Null /\ topicLoading = FALSE
  /\ concept = <<>> /\ lesson = Null /\ lessonLoading = FALSE
  /\ code = <<>> /\ feedback = Null /\ feedbackLoading = FALSE
  /\ languages = <<>> /\ languagesLoading = TRUE /\ languageError = Null
  /\ selectedLanguage \in { Str(k) : k \in SelectionKeys }
  /\ executionLoading = FALSE /\ executionResult = Null
  /\ cancelled = FALSE
  /\ inflight = [o \in Ops |-> IF o = "languages" THEN 1 ELSE 0]
  /\ apiCalls = 1
  /\ lostClick = "none"

NextSelect ==
  \/ \E data \in LanguagesBodies : fetchLanguagesResolved(data)
  \/ \E err \in Rejections : fetchLanguagesRejected(err)
  \/ \E k \in LanguageOptions : SelectLanguage(k)
  \/ \E v \in CodeValues : setCode(v)
  \/ ClickRun
  \/ \E data \in RunBodies : handleRunResolved(data)
  \/ \E err \in Rejections : handleRunRejected(err)
  \/ Unmount

SpecSelect == InitSelect /\ [][NextSelect]_vars

(***************************************************************************)
(* The status line of the Code Lab panel, computed at every render from    *)
(* the stored execution result.                                            *)
(***************************************************************************)
\* const statusInfo = executionResult?.status
statusInfo == OptGet(executionResult, "status")

\* v < n for a number n: v is converted with ToNumber (null to 0, undefined
\* to NaN, and every comparison with NaN is false).  The ids of the
\* responses modelled are numbers or missing.
lessThan(v, n) ==
  CASE v.t = "number" -> v.n < n
    [] v.t = "null" -> 0 < n
    [] OTHER -> FALSE

\* statusInfo?.id === 3 ? "text-emerald-600"
\*   : statusInfo?.id && statusInfo.id < 3 ? "text-amber-600" : "text-red-600"
statusToneOf(info) ==
  IF OptGet(info, "id") = Num(3) THEN "text-emerald-600"
  ELSE IF Truthy(OptGet(info, "id")) /\ lessThan(Get(info, "id"), 3)
    THEN "text-amber-600"
  ELSE "text-red-600"

statusTone == statusToneOf(statusInfo)

\* The execution outcomes of the backend: a status with an integer id, a
\* status without id, a status that is a string.
StatusIds == (0 - MaxStatusId)..MaxStatusId

OutcomeWithId(i) ==
  Obj([status |-> Obj([id |-> Num(i), description |-> Str("S")])])

OutcomeBodies ==
  { OutcomeWithId(i) : i \in StatusIds } \cup
  { Obj([status |-> Obj([description |-> Str("S")])]),
    Obj([status |-> Str("Accepted")]) }

\* The Code Lab panel over every execution outcome.
NextTone ==
  \/ languagesSettle
  \/ \E k \in LanguageOptions : SelectLanguage(k)
  \/ \E v \in CodeValues : setCode(v)
  \/ ClickRun
  \/ \E data \in OutcomeBodies : handleRunResolved(data)
  \/ \E err \in Rejections : handleRunRejected(err)
  \/ Unmount

SpecTone == Init /\ [][NextTone]_vars

(***************************************************************************)
(* Vocabulary of the properties, stated apart from the code's operators.   *)
(***************************************************************************)
ButtonOps == {"curriculum", "lesson", "feedback", "run"}

\* Empty, or made of white space only.
WhitespaceOnly(s) == \A i \in 1..Len(s) : s[i] \in {" ", "\n"}

\* The keys (strings) of a list of descriptors.
KeysOf(langs) == { langs[i].f.key.s : i \in 1..Len(langs) }

\* A step of each operation kind: its trigger, its resolution, its rejection.
CurriculumStep ==
  \/ ClickGenerate
  \/ \E data \in CurriculumBodies : handleGenerateResolved(data)
  \/ \E err \in Rejections : handleGenerateRejected(err)

LessonStep ==
  \/ ClickExplain
  \/ \E data \in LessonBodies : handleExplainResolved(data)
  \/ \E err \in Rejections : handleExplainRejected(err)

FeedbackStep ==
  \/ ClickFeedback
  \/ \E data \in FeedbackBodies : handleFeedbackResolved(data)
  \/ \E err \in Rejections : handleFeedbackRejected(err)

RunStep ==
  \/ ClickRun
  \/ \E data \in RunBodies : handleRunResolved(data)
  \/ \E err \in Rejections : handleRunRejected(err)

LanguagesStep ==
  \/ \E data \in LanguagesBodies : fetchLanguagesResolved(data)
  \/ \E err \in Rejections : fetchLanguagesRejected(err)

(***************************************************************************)
(* C1.  While an operation's loading flag is true its button is disabled,  *)
(* so triggering it again starts no API call: in every reachable state at  *)
(* most one call of each of generate-curriculum, generate-lesson,          *)
(* get-feedback and run-code is in flight.                                 *)
(***************************************************************************)
C1_AtMostOneInFlight == \A o \in ButtonOps : inflight[o] <= 1

\* Generate was clicked again while its call was in flight, and the click
\* started nothing.
C1_Witness ==
  /\ lostClick = "curriculum"
  /\ topicLoading
  /\ ~WhitespaceOnly(topic)
  /\ inflight["curriculum"] = 1

(***************************************************************************)
(* C2.  Triggering an operation whose input (topic, concept or code) is    *)
(* empty or white space only performs no API call and leaves every state   *)
(* variable unchanged.                                                     *)
(***************************************************************************)
C2_BlankTriggerChangesNothing ==
  [][ /\ (ClickGenerate /\ WhitespaceOnly(topic)) => UNCHANGED appVars
      /\ (ClickExplain /\ WhitespaceOnly(concept)) => UNCHANGED appVars
      /\ (ClickFeedback /\ WhitespaceOnly(code)) => UNCHANGED appVars
      /\ (ClickRun /\ WhitespaceOnly(code)) => UNCHANGED appVars ]_vars

\* Run was clicked on a code of white space only, with no run in flight.
C2_Witness ==
  /\ lostClick = "run"
  /\ code # <<>>
  /\ WhitespaceOnly(code)
  /\ ~executionLoading
  /\ inflight["run"] = 0

(***************************************************************************)
(* C3.  When the languages fetch resolves (not torn down) with a list L    *)
(* and the current selection is s.  As claimed: the selection becomes s if *)
(* some entry of L has key s, otherwise the key of the first entry of L,   *)
(* and "python" if L is empty, whatever s was.                             *)
(***************************************************************************)
ClaimedSelection(s, L) ==
  IF s \in KeysOf(L) THEN s
  ELSE IF L # <<>> THEN L[1].f.key.s
  ELSE "python"

AmendedSelection(s, L) ==
  IF s # "" /\ s \in KeysOf(L) THEN s
  ELSE IF L # <<>> /\ L[1].f.key.s # "" THEN L[1].f.key.s
  ELSE IF s # "" THEN s
  ELSE "python"

C4_TeardownDiscardsLanguages == [][ cancelled => UNCHANGED languageVars ]_vars

\* The fetch settled after the teardown: nothing awaits, and the loading
\* flag is still the one of the teardown.
C4_Witness ==
  /\ cancelled
  /\ inflight["languages"] = 0
  /\ languagesLoading
  /\ languages = <<>>
  /\ languageError = Null

(***************************************************************************)
(* C5.  As claimed: in every state after the languages fetch has completed *)
(* (resolved with any list, the empty one included, or rejected) the       *)
(* selected key is the key of some entry of the last-fetched list.         *)
(***************************************************************************)
C5_ClaimedSelectedIsMember ==
  (inflight["languages"] = 0 /\ ~cancelled)
    => selectedLanguage.s \in KeysOf(languages)

\* C5 as amended: in every state after the fetch has resolved with a list
\* that is not empty and whose first key is not empty, the selected key is
\* the key of some entry of that list, also after manual selections.
C5_SelectedIsMember ==
  (languages # <<>> /\ languages[1].f.key.s # "")
    => selectedLanguage.s \in KeysOf(languages)

\* The list [python, js] was fetched and the user then selected "js".
C5_Witness ==
  /\ KeysOf(languages) = {"python", "js"}
  /\ selectedLanguage = Str("js")
  /\ ~languagesLoading

(***************************************************************************)
(* C6.  An accepted trigger sets loading and clears the error stored by a  *)
(* previous invocation of the same operation: no reachable state has an    *)
(* operation's loading flag true together with such an error.              *)
(***************************************************************************)
C6_NoLoadingWithStaleError ==
  /\ topicLoading => curriculum # Obj([error |-> Str("failed to fetch")])
  /\ lessonLoading => lesson # Obj([error |-> Str("failed to fetch")])
  /\ feedbackLoading => feedback # Obj([error |-> Str("failed to fetch")])
  /\ executionLoading => executionResult = Null
  /\ languagesLoading => languageError = Null

(***************************************************************************)
(* C7.  When a run-code call is rejected, the stored execution result is   *)
(* an error record whose message is never empty: the backend's error field *)
(* when the rejection carries one (a non-empty one), else the transport    *)
(* error's message when that is not empty, else the fixed fallback string. *)
(***************************************************************************)
\* The rejection carries a response body with a non-empty error field.
CarriesBackendError(err) ==
  /\ err.t = "object"
  /\ "response" \in DOMAIN err.f
  /\ err.f.response.t = "object"
  /\ "data" \in DOMAIN err.f.response.f
  /\ err.f.response.f.data.t = "object"
  /\ "error" \in DOMAIN err.f.response.f.data.f
  /\ err.f.response.f.data.f.error # Str("")

\* The rejection carries a non-empty transport message.
CarriesMessage(err) ==
  /\ err.t = "object"
  /\ "message" \in DOMAIN err.f
  /\ err.f.message # Str("")

PreferredMessage(err, fallback) ==
  IF CarriesBackendError(err) THEN err.f.response.f.data.f.error
  ELSE IF CarriesMessage(err) THEN err.f.message
  ELSE Str(fallback)

C7_RunRejectionMessage ==
  [][ \A err \in Rejections :
        handleRunRejected(err) =>
          /\ executionResult' =
               Obj([error |-> PreferredMessage(err, "Execution failed. Please try again.")])
          /\ executionResult'.f.error.t = "string"
          /\ executionResult'.f.error.s # "" ]_vars

\* A run was rejected with no structured body and no message: the fallback
\* string is stored.
C7_Witness ==
  /\ executionResult = Obj([error |-> Str("Execution failed. Please try again.")])
  /\ ~executionLoading
  /\ inflight["run"] = 0

C9_RunResultVerbatim ==
  [][ \A data \in RunBodies :
        handleRunResolved(data) => executionResult' = data ]_vars

\* The body {status: {id: 3, ...}, stdout: "hi\n"} is the stored result.
C9_Witness ==
  /\ executionResult =
       Obj([status |-> Obj([id |-> Num(3), description |-> Str("Accepted")]),
            stdout |-> Str("hi\n")])
  /\ ~executionLoading
  /\ inflight["run"] = 0

(***************************************************************************)
(* C10.  Operations of different kinds may be in flight together, and a    *)
(* step of one operation leaves the loading flag and the stored result or  *)
(* error of every other operation unchanged; the selected language is      *)
(* written only by the resolution of the languages fetch and by the user's *)
(* manual selection.                                                       *)
(***************************************************************************)
C10_OperationsIndependent ==
  [][ /\ curriculumVars' # curriculumVars => CurriculumStep
      /\ lessonVars' # lessonVars => LessonStep
      /\ feedbackVars' # feedbackVars => FeedbackStep
      /\ executionVars' # executionVars => RunStep
      /\ <<languages, languagesLoading, languageError>>' #
           <<languages, languagesLoading, languageError>> => LanguagesStep
      /\ selectedLanguage' # selectedLanguage =>
           \/ \E data \in LanguagesBodies : fetchLanguagesResolved(data)
           \/ \E k \in LanguageOptions : SelectLanguage(k) ]_vars

\* A curriculum call and a run are in flight together, beside a stored
\* lesson or feedback or none.
C10_Witness ==
  /\ inflight["curriculum"] = 1
  /\ inflight["run"] = 1
  /\ topicLoading
  /\ executionLoading

(***************************************************************************)
(* C11.  The selection rule is applied once per languages fetch, when the  *)
(* fetch resolves: a resolution happens only while the fetch is awaited    *)
(* (the list still loading, or the component torn down) and ends the wait. *)
(* Once the fetch has completed, the selected language is changed by the   *)
(* user's manual selection only: no later step overwrites the choice.      *)
(***************************************************************************)
C11_SelectionAppliedOnce ==
  [][ /\ (\E data \in LanguagesBodies : fetchLanguagesResolved(data))
           => /\ languagesLoading \/ cancelled
              /\ inflight["languages"] = 1
              /\ inflight'["languages"] = 0
      /\ (~languagesLoading /\ selectedLanguage' # selectedLanguage)
           => \E k \in LanguageOptions : SelectLanguage(k) ]_vars

\* The list [python, js] was fetched, which kept "python"; the user chose
\* "js", a run has completed, and the choice is still "js".
C11_Witness ==
  /\ inflight["languages"] = 0
  /\ ~languagesLoading
  /\ Len(languages) = 2
  /\ languages[1].f.key.s = "python"
  /\ selectedLanguage = Str("js")
  /\ executionResult # Null
  /\ ~executionLoading

(***************************************************************************)
(* C12.  Every accepted trigger of generate-curriculum, generate-lesson,   *)
(* get-feedback and run-code is followed, once its call resolves or        *)
(* rejects, by a state in which the operation's loading flag is false and  *)
(* the result or an error is stored.  The step that handles a rejection    *)
(* issues no call (no automatic re-attempt) and leaves no call of the      *)
(* operation awaited and its loading flag false, so the operation can be   *)
(* triggered again.                                                        *)
(***************************************************************************)
\* An error record: { error: ... }.
IsErrorRecord(v) == v.t = "object" /\ DOMAIN v.f = {"error"}

\* The values of field k of v (none when v has no such field).
FieldOf(v, k) == IF v.t = "object" /\ k \in DOMAIN v.f THEN {v.f[k]} ELSE {}

\* A step in which a call of operation o resolves or rejects.
Completes(o) == inflight'[o] < inflight[o]

\* After the step operation o is idle: not loading, no call of o awaited,
\* and the step itself has issued no call.
IdleAfter(o, loadingAfter) ==
  /\ ~loadingAfter
  /\ inflight'[o] = 0
  /\ apiCalls' = apiCalls

C12_CompletionEndsLoading ==
  /\ [][ /\ Completes("curriculum") =>
               /\ IdleAfter("curriculum", topicLoading')
               /\ \/ \E data \in CurriculumBodies \ {Null} :
                       curriculum' \in {data} \cup FieldOf(data, "curriculum")
                  \/ IsErrorRecord(curriculum')
         /\ Completes("lesson") =>
               /\ IdleAfter("lesson", lessonLoading')
               /\ lesson' \in LessonBodies \/ IsErrorRecord(lesson')
         /\ Completes("feedback") =>
               /\ IdleAfter("feedback", feedbackLoading')
               /\ \/ \E data \in FeedbackBodies \ {Null} :
                       feedback' \in {data} \cup FieldOf(data, "feedback")
                  \/ IsErrorRecord(feedback')
         /\ Completes("run") =>
               /\ IdleAfter("run", executionLoading')
               /\ executionResult' \in RunBodies \/ IsErrorRecord(executionResult')
      ]_vars
  /\ (topicLoading ~> (~topicLoading /\ curriculum # Null))
  /\ (lessonLoading ~> (~lessonLoading /\ lesson # Null))
  /\ (feedbackLoading ~> (~feedbackLoading /\ feedback # Null))
  /\ (executionLoading ~> (~executionLoading /\ executionResult # Null))

\* A curriculum call was rejected and Generate was accepted again: the
\* second call is awaited beside the error record of the first.
C12_Witness ==
  /\ IsErrorRecord(curriculum)
  /\ topicLoading
  /\ inflight["curriculum"] = 1
  /\ apiCalls >= 3

(***************************************************************************)
(* C13.  The feedback stored when a get-feedback call resolves depends on  *)
(* the response body only, not on the feedback stored before: a second     *)
(* call that resolves with the same body as the first (same code, a        *)
(* deterministic backend) stores the same value again.                     *)
(***************************************************************************)
\* What a response body stores: its feedback field when it has one, else
\* the body itself; a null body, of which no field can be read, stores the
\* error record.
StoredFeedbackOf(data) ==
  IF data = Null THEN Obj([error |-> Str("failed to fetch")])
  ELSE IF FieldOf(data, "feedback") # {} THEN data.f.feedback
  ELSE data

C13_FeedbackDependsOnBodyOnly ==
  [][ \A data \in FeedbackBodies :
        handleFeedbackResolved(data) =>
          /\ feedback' = StoredFeedbackOf(data)
          /\ (feedback = StoredFeedbackOf(data)) => (feedback' = feedback) ]_vars

\* Two get-feedback calls, and no other call but the languages fetch, have
\* completed, and the feedback of the body { feedback: "looks good" } is
\* stored.
C13_Witness ==
  /\ apiCalls = 3
  /\ \A o \in Ops : inflight[o] = 0
  /\ curriculum = Null /\ lesson = Null /\ executionResult = Null
  /\ ~feedbackLoading
  /\ feedback = Str("looks good")

(***************************************************************************)
(* C14.  As claimed: the status classification of a stored execution       *)
(* outcome is a three-way function of its integer status id: id 3 is       *)
(* success, every id below 3 (0 and the negative ids included) is          *)
(* in-progress, every other id is failure.                                 *)
(***************************************************************************)
ClaimedTone(i) ==
  IF i = 3 THEN "text-emerald-600"
  ELSE IF i < 3 THEN "text-amber-600"
  ELSE "text-red-600"

C14_ClaimedClassification ==
  \A i \in StatusIds :
    (executionResult = OutcomeWithId(i)) => statusTone = ClaimedTone(i)

\* The classification the code computes: as claimed but for id 0, which is
\* failure.
C14_ClassificationButZero ==
  \A i \in StatusIds :
    (executionResult = OutcomeWithId(i)) =>
      statusTone = IF i = 0 THEN "text-red-600" ELSE ClaimedTone(i)

\* The outcome with status id 0 is stored and shown as a failure.
C14_ZeroIsFailure ==
  /\ executionResult = OutcomeWithId(0)
  /\ ~executionLoading
  /\ statusTone = "text-red-600"

(***************************************************************************)
(* C15.  As claimed: for each operation (the languages fetch included), in *)
(* every reachable state the loading flag is true exactly when a call of   *)
(* that operation is in flight.                                            *)
(***************************************************************************)
LoadingFlag(o) ==
  CASE o = "curriculum" -> topicLoading
    [] o = "lesson" -> lessonLoading
    [] o = "feedback" -> feedbackLoading
    [] o = "run" -> executionLoading
    [] o = "languages" -> languagesLoading

C15_ClaimedLoadingIffInFlight ==
  \A o \in Ops : LoadingFlag(o) <=> (inflight[o] > 0)

\* C15 as amended: for generate-curriculum, generate-lesson, get-feedback
\* and run-code the loading flag is true exactly when a call of the
\* operation is in flight, in every reachable state; for the languages
\* fetch this holds until the component is torn down, and a fetch that is
\* still in flight at the teardown leaves its flag true for good.
C15_LoadingIffInFlight ==
  /\ \A o \in ButtonOps : LoadingFlag(o) <=> (inflight[o] > 0)
  /\ ~cancelled => (languagesLoading <=> (inflight["languages"] > 0))
  /\ (inflight["languages"] > 0) => languagesLoading

\* A feedback call is in flight beside a lesson call and a languages fetch
\* that have completed.
C15_Witness ==
  /\ feedbackLoading /\ inflight["feedback"] = 1
  /\ ~lessonLoading /\ inflight["lesson"] = 0 /\ lesson # Null
  /\ ~languagesLoading /\ inflight["languages"] = 0
  /\ ~cancelled

====
